---------------------------- MODULE Spec2Model ----------------------------
(***************************************************************************)
(* The GPU channel message-scheduling core of content/common/gpu/          *)
(* gpu_channel.cc (src/unnamed/part_002): the SyncPointMessageFilter on    *)
(* the I/O thread and the GpuChannel deferred queue and dispatch loop on   *)
(* the main thread.  Each thread is a FIFO task loop; a handler is one     *)
(* action.  The command-buffer stub, the sync-point manager and the        *)
(* transport are collaborators: what they do is drawn nondeterministically *)
(* (the stub's state after it handled a message) or taken from their       *)
(* contract.                                                               *)
(***************************************************************************)
EXTENDS Integers, Sequences, FiniteSets, TLC

\* Bounds of the model.
MaxRoutes == 2
MaxMessages == 3
MaxSyncPoints == 2
MaxRequeues == 1

\* The routing id of control messages: kint32max, a value no stub is
\* registered under (stub routes start at 1).
MSG_ROUTING_CONTROL == 2147483647

\* Milliseconds between successive vsyncs, and the thresholds of preemption.
kVsyncIntervalMs == 17
kPreemptWaitTimeMs == 2 * kVsyncIntervalMs
kMaxPreemptTimeMs == kVsyncIntervalMs
kStopPreemptThresholdMs == kVsyncIntervalMs

\* The clock of a run stops here, and what passes between two looks at it.
MaxTime == 52
ClockStepMs == 8
\* The clock of a run that takes the filter round its cycle twice.
MaxCycleTime == 86

Routes == 1..MaxRoutes
Tokens == 1..MaxSyncPoints

VARIABLES
    \* GpuChannel, main thread
    alive,                      \* the GpuChannel exists (its weak pointers are valid)
    deferred_messages_,
    messages_processed_,
    handle_messages_scheduled_,
    processed_get_state_fast_,
    stubs_,                     \* route id -> stub
    last_id,                    \* GenerateRouteID's static counter
    preempted_flag_,            \* the channel was handed a flag to be preempted by
    preempting_flag_,           \* the channel created its own flag
    mainTasks,                  \* the main thread's message loop
    \* SyncPointMessageFilter, I/O thread
    messages_received_,
    pending_messages_,
    preemption_state_,
    filter_flag_,               \* the filter's preempting_flag_
    timer_,                     \* the filter's one-shot timer: its target, or "none"
    channel_,                   \* the filter is attached to the transport
    preempting_flag_set,        \* the value of the flag of preempting_flag_
    now,                        \* base::TimeTicks::Now(), in milliseconds
    preempt_obs,                \* observation of the filter: its preemption state
                                \* machine, and the messages it refused
    ioTasks,                    \* tasks posted to the I/O thread
    \* shared with collaborators
    next_sync_point,            \* SyncPointManager's counter
    retired,                    \* token -> number of RetireSyncPoint calls on the manager
    error_replies,              \* error replies sent by the dispatch loop
    flag_set,                   \* the flag of preempted_flag_ is set (by the other channel)
    \* observation
    io_effects,                 \* what the filter did for sync points, in program order
    sp_task,                    \* token -> what its association task did
    arrivals,                   \* messages received by GpuChannel::OnMessageReceived
    requeues,                   \* calls of RequeueMessage
    dispatch_log,               \* received messages in order of first dispatch
    last_wake                   \* what the most recent HandleMessage wake did,
                                \* and the received message a wake found held up
                                \* by a stub that is not scheduled, kept until a
                                \* message for that stub is dispatched

chanVars == <<alive, deferred_messages_, messages_processed_,
              handle_messages_scheduled_, processed_get_state_fast_, stubs_,
              last_id, preempted_flag_, preempting_flag_>>
filterVars == <<messages_received_, pending_messages_, preemption_state_,
                filter_flag_, timer_, channel_, preempting_flag_set, now,
                preempt_obs>>
obsVars == <<io_effects, sp_task, arrivals, requeues, dispatch_log, last_wake>>
vars == <<chanVars, mainTasks, filterVars, ioTasks, next_sync_point, retired,
          error_replies, flag_set, obsVars>>

----------------------------------------------------------------------------
\* Messages, stubs, tasks

GetStateFast == "GetStateFast"

Msg(type, route, arg) == [type |-> type, route |-> route, arg |-> arg, id |-> 0]
NoMsg == Msg("none", MSG_ROUTING_CONTROL, 0)

\* What the transport can deliver to the filter.
TransportMessages ==
    {Msg(t, r, 0) : t \in {"AsyncFlush", GetStateFast, "InsertSyncPoint"}, r \in Routes}
    \cup {Msg("RetireSyncPoint", r, 1) : r \in Routes}
    \cup {Msg("DestroyCommandBuffer", MSG_ROUTING_CONTROL, r) : r \in Routes}

\* IPC::Message::is_sync() of the message types of the model.
IsSync(m) ==
    m.type \in {GetStateFast, "InsertSyncPoint", "DestroyCommandBuffer",
                "CreateOffscreenCommandBuffer", "RegisterStreamTextureProxy"}

NoStub == [exists |-> FALSE, scheduled |-> FALSE, unprocessed |-> FALSE,
           flag |-> FALSE, sync_points |-> <<>>]
NewStub(flag) == [exists |-> TRUE, scheduled |-> TRUE, unprocessed |-> FALSE,
                  flag |-> flag, sync_points |-> <<>>]

\* stubs_.Lookup(route_id)
LookupCommandBuffer(stubs, route) ==
    IF route \in Routes THEN stubs[route] ELSE NoStub

\* GpuCommandBufferStub::IsPreempted(): a flag is installed and it is set.
IsPreempted(stub) == stub.flag /\ flag_set

\* What a stub may have done when RouteMessage returns.
Outcomes == [scheduled : BOOLEAN, unprocessed : BOOLEAN, requeue : BOOLEAN]
Clean == [scheduled |-> TRUE, unprocessed |-> FALSE, requeue |-> FALSE]

HandleMessageTask == <<"HandleMessage">>
DeliverTask(m) == <<"Deliver", m>>
InsertSyncPointTask(route, token) == <<"InsertSyncPoint", route, token>>

Wake(outcome, msg) ==
    [outcome |-> outcome, type |-> msg.type, route |-> msg.route,
     result |-> FALSE, requeued |-> FALSE, cont |-> FALSE,
     in_flight |-> "none", stalled |-> NoMsg]

\* What is recorded of a token: the destination when the filter received the
\* request, the branch its association task took and what the task did.
NoTask == [at_request |-> "", path |-> "", assoc |-> 0, enq |-> 0, forced |-> 0,
           processed |-> 0]

\* The destination of a route as a request for it finds it.
Destination(stubs, route) ==
    LET stub == LookupCommandBuffer(stubs, route)
    IN IF ~stub.exists THEN "missing"
       ELSE IF ~stub.scheduled THEN "unscheduled"
       ELSE IF IsPreempted(stub) THEN "preempted"
       ELSE "ready"

\* base::OneShotTimer: the task it will run and when.
NoTimer == [task |-> "none", due |-> 0]
StartTimer(task, t, delay) == [task |-> task, due |-> t + delay]

\* struct PendingMessage: the constructor reads the clock.
PendingMessage(message_number, t) ==
    [message_number |-> message_number, time_received |-> t]

\* What is recorded of the preemption state machine: when it last left IDLE,
\* when it last entered PREEMPTING and when it last left it, the records it
\* pushed, the flags the channel created, the calls of Set and the
\* assertions that failed.
NoPreemption == [left_idle |-> 0, entered |-> 0, ended |-> 0, pushed |-> 0,
                 created |-> 0, sets |-> 0, failed |-> {}, refused |-> 0]

----------------------------------------------------------------------------
Init ==
    /\ alive = TRUE
    /\ deferred_messages_ = <<>>
    /\ messages_processed_ = 0
    /\ handle_messages_scheduled_ = FALSE
    /\ processed_get_state_fast_ = FALSE
    /\ stubs_ = [r \in Routes |-> NoStub]
    /\ last_id = 0
    /\ preempted_flag_ = FALSE
    /\ preempting_flag_ = FALSE
    /\ mainTasks = <<>>
    /\ messages_received_ = 0
    /\ pending_messages_ = <<>>
    /\ preemption_state_ = "IDLE"
    /\ filter_flag_ = FALSE
    /\ timer_ = NoTimer
    /\ channel_ = TRUE
    /\ preempting_flag_set = FALSE
    /\ now = 0
    /\ preempt_obs = NoPreemption
    /\ ioTasks = <<>>
    /\ next_sync_point = 1
    /\ retired = [t \in Tokens |-> 0]
    /\ error_replies = 0
    /\ flag_set = FALSE
    /\ io_effects = <<>>
    /\ sp_task = [t \in Tokens |-> NoTask]
    /\ arrivals = 0
    /\ requeues = 0
    /\ dispatch_log = <<>>
    /\ last_wake = Wake("none", NoMsg)

----------------------------------------------------------------------------
\* SyncPointMessageFilter (I/O thread)

\* The filter's fields as one value, for the functions of the state machine.
Filter ==
    [state |-> preemption_state_, flag |-> filter_flag_,
     set |-> preempting_flag_set, pending |-> pending_messages_,
     timer |-> timer_, obs |-> preempt_obs]

\* time_elapsed.InMilliseconds() of the front record
Elapsed(pending, t) == t - Head(pending).time_received

\* An IDLE filter that never starts waiting.
LeavesIdleNever(flag, pending) == FALSE

\* UpdatePreemptionState, IDLE: a flag and a backlog
LeavesIdle(flag, pending) == flag /\ pending # <<>>

\* A check that takes the grace interval for elapsed whatever the age.
GraceElapsedAlways(pending, t) == TRUE

\* A check that never takes the grace interval for elapsed.
GraceElapsedNever(pending, t) == FALSE

\* UpdatePreemptionState, CHECKING: the front record has waited the grace
\* interval.
GraceElapsed(pending, t) == ~(Elapsed(pending, t) < kPreemptWaitTimeMs)

\* A preemption that stops for an empty backlog only.
StopsPreemptingWhenEmpty(pending, t) == pending = <<>>

\* UpdatePreemptionState, PREEMPTING: the backlog drained or is young.
StopsPreempting(pending, t) ==
    \/ pending = <<>>
    \/ Elapsed(pending, t) < kStopPreemptThresholdMs

\* A CHECKING filter that schedules no other check.
RecheckTimerNone(pending, t) == NoTimer

\* UpdatePreemptionState, CHECKING: another check for when the front record
\* will have waited the grace interval.
RecheckTimer(pending, t) ==
    StartTimer("UpdatePreemptionState", t,
               kPreemptWaitTimeMs - Elapsed(pending, t))

\* A cap of twice the maximum.
MaxPreemptTimerLong(t) == StartTimer("TransitionToIdle", t, 2 * kMaxPreemptTimeMs)

\* TransitionToPreempting: the timer that forces the return to IDLE.
MaxPreemptTimer(t) == StartTimer("TransitionToIdle", t, kMaxPreemptTimeMs)

\* DCHECK(ok): a failed assertion is recorded and the function goes on, as
\* in a build without DCHECKs.
DCheck(f, ok, name) ==
    IF ok THEN f ELSE [f EXCEPT !.obs.failed = @ \cup {name}]

RECURSIVE UpdatePreemptionState(_, _)

\* A TransitionToWaiting that waits one vsync interval.
TransitionToWaitingShort(f, t) ==
    [f EXCEPT !.state = "WAITING",
              !.timer = StartTimer("TransitionToChecking", t, kVsyncIntervalMs),
              !.obs.left_idle = t]

\* A TransitionToWaiting that starts no timer.
TransitionToWaitingNoTimer(f, t) ==
    [f EXCEPT !.state = "WAITING", !.obs.left_idle = t]

\* A Stop that leaves the timer running.
StopTimerNot(timer) == timer

\* timer_.Stop()
StopTimer(timer) == NoTimer

\* A TransitionToPreempting that leaves the flag as it is.
TransitionToPreemptingNoSet(f, t) ==
    UpdatePreemptionState([f EXCEPT !.state = "PREEMPTING",
                                    !.timer = StartTimer("TransitionToIdle", t,
                                                         kMaxPreemptTimeMs),
                                    !.obs.entered = t], t)

TransitionToWaiting(f, t) ==
    LET f1 == DCheck(f, f.state = "IDLE", "TransitionToWaiting: state")
        f2 == DCheck(f1, f.timer = NoTimer, "TransitionToWaiting: timer")
    IN [f2 EXCEPT !.state = "WAITING",
                  !.timer = StartTimer("TransitionToChecking", t, kPreemptWaitTimeMs),
                  !.obs.left_idle = t]

TransitionToIdle(f, t) ==
    LET f1 == DCheck(f, f.state = "PREEMPTING", "TransitionToIdle: state")
    IN UpdatePreemptionState([f1 EXCEPT !.timer = StopTimer(@),
                                        !.state = "IDLE",
                                        !.set = FALSE,
                                        !.obs.ended = t], t)

TransitionToPreempting(f, t) ==
    LET f1 == DCheck(f, f.state = "CHECKING", "TransitionToPreempting: state")
    IN UpdatePreemptionState([f1 EXCEPT !.state = "PREEMPTING",
                                        !.set = TRUE,
                                        !.timer = MaxPreemptTimer(t),
                                        !.obs.entered = t,
                                        !.obs.sets = @ + 1], t)

\* The filter after UpdatePreemptionState ran at time t.
UpdatePreemptionState(f, t) ==
    CASE f.state = "IDLE" ->
           IF LeavesIdle(f.flag, f.pending) THEN TransitionToWaiting(f, t) ELSE f
      [] f.state = "WAITING" ->
           DCheck(f, f.timer # NoTimer, "UpdatePreemptionState: timer")
      [] f.state = "CHECKING" ->
           IF f.pending = <<>> THEN f
           ELSE IF GraceElapsed(f.pending, t)
           THEN TransitionToPreempting(f, t)
           ELSE [f EXCEPT !.timer = RecheckTimer(f.pending, t)]
      [] f.state = "PREEMPTING" ->
           IF StopsPreempting(f.pending, t) THEN TransitionToIdle(f, t) ELSE f

TransitionToChecking(f, t) ==
    LET f1 == DCheck(f, f.state = "WAITING", "TransitionToChecking: state")
        f2 == DCheck(f1, f.timer = NoTimer, "TransitionToChecking: timer")
    IN UpdatePreemptionState([f2 EXCEPT !.state = "CHECKING"], t)

\* The filter's fields take the values of f.
FilterBecomes(f) ==
    /\ preemption_state_' = f.state
    /\ filter_flag_' = f.flag
    /\ preempting_flag_set' = f.set
    /\ pending_messages_' = f.pending
    /\ timer_' = f.timer
    /\ preempt_obs' = f.obs

\* A filter that records every message.
RecordsEveryMessage(flag) == TRUE

\* OnMessageReceived: the message is recorded when a flag is installed.
RecordsMessage(flag) == flag

\* A filter that lets the InsertSyncPoint request through to the listener.
FilterConsumesRetireOnly(m) == m.type = "RetireSyncPoint"

\* A filter that treats a RetireSyncPoint message from the transport as any
\* other message.
RefusesNoMessage(m) == FALSE

\* OnMessageReceived: the message is one the renderer must not send; the
\* filter returns true for it before it does anything else.
RefusesMessage(m) == m.type = "RetireSyncPoint"

\* The filter's verdict on a message: TRUE when it consumes it (the
\* transport then does not hand it to the listener).
FilterConsumes(m) == RefusesMessage(m) \/ m.type = "InsertSyncPoint"

\* What OnMessageReceived does for an InsertSyncPoint request once the token
\* is generated, in program order.
SyncPointEffects(token) == <<<<"Send", token>>, <<"PostTask", token>>>>

\* The traffic a run carries is bounded.
MayReceive == messages_received_ + preempt_obs.refused < MaxMessages

FilterOnMessageReceived(m) ==
    /\ channel_
    /\ IF RefusesMessage(m)
       THEN \* NOTREACHED(); return true
            /\ preempt_obs' = [preempt_obs EXCEPT !.refused = @ + 1]
            /\ UNCHANGED <<chanVars, mainTasks, messages_received_,
                           pending_messages_, preemption_state_, filter_flag_,
                           timer_, channel_, preempting_flag_set, now, ioTasks,
                           next_sync_point, retired, error_replies, flag_set,
                           obsVars>>
       ELSE /\ m.type = "InsertSyncPoint" => next_sync_point <= MaxSyncPoints
            /\ messages_received_' = messages_received_ + 1
            /\ LET f == Filter
                   recorded ==
                       IF RecordsMessage(filter_flag_)
                       THEN [f EXCEPT !.pending =
                                Append(@, PendingMessage(messages_received_ + 1, now)),
                                      !.obs.pushed = @ + 1]
                       ELSE f
               IN FilterBecomes(UpdatePreemptionState(recorded, now))
            /\ LET forward(tasks) == IF FilterConsumes(m) THEN tasks
                                      ELSE Append(tasks, DeliverTask(m))
               IN IF m.type = "InsertSyncPoint"
                  THEN LET sync_point == next_sync_point
                       IN /\ next_sync_point' = next_sync_point + 1
                          /\ io_effects' = io_effects \o SyncPointEffects(sync_point)
                          /\ sp_task' = [sp_task EXCEPT ![sync_point].at_request =
                                            Destination(stubs_, m.route)]
                          /\ mainTasks' = forward(Append(mainTasks,
                                 InsertSyncPointTask(m.route, sync_point)))
                  ELSE /\ mainTasks' = forward(mainTasks)
                       /\ UNCHANGED <<next_sync_point, io_effects, sp_task>>
            /\ UNCHANGED <<chanVars, channel_, now, ioTasks, retired,
                           error_replies, flag_set, arrivals, requeues,
                           dispatch_log, last_wake>>

\* The transport closed after the channel was destroyed.
OnFilterRemoved ==
    /\ channel_ /\ ~alive
    /\ channel_' = FALSE
    /\ UNCHANGED <<chanVars, mainTasks, messages_received_, pending_messages_,
                   preemption_state_, filter_flag_, timer_, preempting_flag_set,
                   now, preempt_obs, ioTasks, next_sync_point, retired,
                   error_replies, flag_set, obsVars>>

\* A filter that drops its whole backlog at a notification.
PopAll(pending, messages_processed) == <<>>

RECURSIVE PopProcessed(_, _)
\* MessageProcessed: the records popped off the front.
PopProcessed(pending, messages_processed) ==
    IF pending # <<>> /\ Head(pending).message_number <= messages_processed
    THEN PopProcessed(Tail(pending), messages_processed)
    ELSE pending

\* SyncPointMessageFilter::MessageProcessed, posted by the channel.
FilterMessageProcessed ==
    /\ ioTasks # <<>>
    /\ Head(ioTasks)[1] = "MessageProcessed"
    /\ ioTasks' = Tail(ioTasks)
    /\ FilterBecomes(UpdatePreemptionState(
           [Filter EXCEPT !.pending = PopProcessed(@, Head(ioTasks)[2])], now))
    /\ UNCHANGED <<chanVars, mainTasks, messages_received_, channel_, now,
                   next_sync_point, retired, error_replies, flag_set, obsVars>>

\* SyncPointMessageFilter::SetPreemptingFlag, posted by GetPreemptionFlag.
SetPreemptingFlag ==
    /\ ioTasks # <<>>
    /\ Head(ioTasks)[1] = "SetPreemptingFlag"
    /\ ioTasks' = Tail(ioTasks)
    /\ filter_flag_' = TRUE
    /\ UNCHANGED <<chanVars, mainTasks, messages_received_, pending_messages_,
                   preemption_state_, timer_, channel_, preempting_flag_set,
                   now, preempt_obs, next_sync_point, retired, error_replies,
                   flag_set, obsVars>>

\* The timer runs its task when the delay has passed; it is stopped when the
\* task runs.
TimerFires ==
    /\ timer_.task # "none"
    /\ now >= timer_.due
    /\ LET f == [Filter EXCEPT !.timer = NoTimer]
       IN FilterBecomes(
            CASE timer_.task = "TransitionToChecking" -> TransitionToChecking(f, now)
              [] timer_.task = "TransitionToIdle" -> TransitionToIdle(f, now)
              [] timer_.task = "UpdatePreemptionState" -> UpdatePreemptionState(f, now))
    /\ UNCHANGED <<chanVars, mainTasks, messages_received_, channel_, now,
                   ioTasks, next_sync_point, retired, error_replies, flag_set,
                   obsVars>>

\* Time passes, up to a limit.  The timer's task runs when it is due: the
\* clock does not pass the time a running timer is set for.
Advance(limit) ==
    /\ now < limit
    /\ timer_.task # "none" => now < timer_.due
    /\ LET step == now + ClockStepMs
           due == IF timer_.task # "none" /\ timer_.due < step
                  THEN timer_.due ELSE step
       IN now' = IF due > limit THEN limit ELSE due
    /\ UNCHANGED <<chanVars, mainTasks, messages_received_, pending_messages_,
                   preemption_state_, filter_flag_, timer_, channel_,
                   preempting_flag_set, preempt_obs, ioTasks, next_sync_point,
                   retired, error_replies, flag_set, obsVars>>

Tick == Advance(MaxTime)

----------------------------------------------------------------------------
\* The command-buffer stub and the sync-point manager

\* The stub after RouteMessage handed it the message.  Handling a
\* RetireSyncPoint takes the token off the stub's list and retires it (see
\* RetiredAfter); a requeued message is handled in its later dispatch.
StubAfter(stub, m, o) ==
    [stub EXCEPT !.scheduled = o.scheduled,
                 !.unprocessed = o.unprocessed,
                 !.sync_points =
                     IF m.type = "RetireSyncPoint" /\ ~o.requeue
                     THEN SelectSeq(@, LAMBDA t : t # m.arg)
                     ELSE @]

Bump(f, t) == [f EXCEPT ![t] = @ + 1]

\* The manager's counts after the stub handled m: a RetireSyncPoint message
\* makes the stub call RetireSyncPoint for its token.
RetiredAfter(ret, m, o) ==
    IF m.type = "RetireSyncPoint" /\ ~o.requeue THEN Bump(ret, m.arg) ELSE ret

\* The manager's counts after a stub was destroyed: the stub retires the sync
\* points it still holds.
RetireAll(ret, sps) ==
    [t \in Tokens |-> ret[t] + Cardinality({i \in 1..Len(sps) : sps[i] = t})]

RECURSIVE RetireStubs(_, _, _)
RetireStubs(ret, stubs, routes) ==
    IF routes = {} THEN ret
    ELSE LET r == CHOOSE x \in routes : TRUE
         IN RetireStubs(RetireAll(ret, stubs[r].sync_points), stubs, routes \ {r})

----------------------------------------------------------------------------
\* GpuChannel (main thread)

RECURSIVE LeadingGetStateFast(_)
\* The number of GetStateFast messages at the front of the queue.
LeadingGetStateFast(q) ==
    IF q = <<>> \/ Head(q).type # GetStateFast THEN 0
    ELSE 1 + LeadingGetStateFast(Tail(q))

\* deque::insert before the element at index n + 1
InsertAfter(q, n, m) == SubSeq(q, 1, n) \o <<m>> \o SubSeq(q, n + 1, Len(q))

\* A queue that puts every arrival at the front.
DeferMessageNewestFirst(q, processed_gsf, m) == <<m>> \o q

\* A queue that lets no GetStateFast overtake: every arrival goes to the back.
DeferMessageBack(q, processed_gsf, m) == Append(q, m)

\* GpuChannel::OnMessageReceived: where the message goes in the queue.
DeferMessage(q, processed_gsf, m) ==
    IF m.type = GetStateFast
    THEN IF processed_gsf
         THEN LET k == LeadingGetStateFast(q)
                  point == IF k < Len(q) THEN k + 1 ELSE k
              IN InsertAfter(q, point, m)
         ELSE <<m>> \o q
    ELSE Append(q, m)

Stamp(m, n) == [m EXCEPT !.id = n]

\* An OnScheduled that posts a wake on every call.
OnScheduledEveryCall(tasks, scheduled) == Append(tasks, HandleMessageTask)

\* GpuChannel::OnScheduled: post a wake unless one is pending.
OnScheduled(tasks, scheduled) ==
    IF scheduled THEN tasks ELSE Append(tasks, HandleMessageTask)

\* A channel that notifies the filter whether or not it has made a flag.
PostMessageProcessedAlways(tasks, flag, count) ==
    Append(tasks, <<"MessageProcessed", count>>)

\* GpuChannel::MessageProcessed: the notification posted to the filter.
PostMessageProcessed(tasks, flag, count) ==
    IF flag THEN Append(tasks, <<"MessageProcessed", count>>) ELSE tasks

\* The transport hands a message the filter did not consume to the listener.
Deliver ==
    /\ mainTasks # <<>>
    /\ Head(mainTasks)[1] = "Deliver"
    /\ LET m == Head(mainTasks)[2]
       IN IF ~alive
          THEN /\ mainTasks' = Tail(mainTasks)
               /\ UNCHANGED <<chanVars, arrivals>>
          ELSE /\ deferred_messages_' =
                    DeferMessage(deferred_messages_, processed_get_state_fast_,
                                 Stamp(m, arrivals + 1))
               /\ arrivals' = arrivals + 1
               /\ mainTasks' = OnScheduled(Tail(mainTasks), handle_messages_scheduled_)
               /\ handle_messages_scheduled_' = TRUE
               /\ UNCHANGED <<alive, messages_processed_, processed_get_state_fast_,
                              stubs_, last_id, preempted_flag_, preempting_flag_>>
    /\ UNCHANGED <<filterVars, ioTasks, next_sync_point, retired, error_replies,
                   flag_set, io_effects, sp_task, requeues, dispatch_log,
                   last_wake>>

\* An association task that returns without retiring when the stub is gone.
SyncPointTaskEffectsLost(channel_alive, stub_found) ==
    [associate |-> channel_alive /\ stub_found,
     processed |-> channel_alive /\ ~stub_found,
     retire    |-> ~channel_alive]

\* An association task that leaves retiring to the destination in every case.
SyncPointTaskEffectsNoForce(channel_alive, stub_found) ==
    [associate |-> channel_alive /\ stub_found,
     processed |-> channel_alive /\ ~stub_found,
     retire    |-> FALSE]

\* An association task that does not count the request as processed.
SyncPointTaskEffectsUncounted(channel_alive, stub_found) ==
    [associate |-> channel_alive /\ stub_found,
     processed |-> FALSE,
     retire    |-> ~(channel_alive /\ stub_found)]

\* InsertSyncPointOnMainThread: which of its branches run.
SyncPointTaskEffects(channel_alive, stub_found) ==
    [associate |-> channel_alive /\ stub_found,
     processed |-> channel_alive /\ ~stub_found,
     retire    |-> ~(channel_alive /\ stub_found)]

InsertSyncPointOnMainThread ==
    /\ mainTasks # <<>>
    /\ Head(mainTasks)[1] = "InsertSyncPoint"
    /\ LET routing_id == Head(mainTasks)[2]
           sync_point == Head(mainTasks)[3]
           stub == LookupCommandBuffer(stubs_, routing_id)
           e == SyncPointTaskEffects(alive, alive /\ stub.exists)
           message == Stamp(Msg("RetireSyncPoint", routing_id, sync_point),
                            arrivals + 1)
           n(b) == IF b THEN 1 ELSE 0
       IN /\ stubs_' = IF e.associate
                       THEN [stubs_ EXCEPT ![routing_id].sync_points =
                                               Append(@, sync_point)]
                       ELSE stubs_
          /\ deferred_messages_' =
               IF e.associate
               THEN DeferMessage(deferred_messages_, processed_get_state_fast_, message)
               ELSE deferred_messages_
          /\ arrivals' = arrivals + n(e.associate)
          /\ mainTasks' = IF e.associate
                          THEN OnScheduled(Tail(mainTasks), handle_messages_scheduled_)
                          ELSE Tail(mainTasks)
          /\ handle_messages_scheduled_' = (handle_messages_scheduled_ \/ e.associate)
          /\ messages_processed_' = messages_processed_ + n(e.processed)
          /\ ioTasks' = IF e.processed
                        THEN PostMessageProcessed(ioTasks, preempting_flag_,
                                                  messages_processed_ + 1)
                        ELSE ioTasks
          /\ retired' = IF e.retire THEN Bump(retired, sync_point) ELSE retired
          /\ sp_task' = [sp_task EXCEPT ![sync_point] =
                            [at_request |-> @.at_request,
                             path |-> IF ~alive THEN "gone"
                                      ELSE IF stub.exists THEN "stub"
                                      ELSE "no stub",
                             assoc |-> @.assoc + n(e.associate),
                             enq |-> @.enq + n(e.associate),
                             forced |-> @.forced + n(e.retire),
                             processed |-> @.processed + n(e.processed)]]
    /\ UNCHANGED <<alive, processed_get_state_fast_, last_id, preempted_flag_,
                   preempting_flag_, filterVars, next_sync_point, error_replies,
                   flag_set, io_effects, requeues, dispatch_log, last_wake>>

\* A message map that takes every control message for handled.
ControlHandledAlways(m) == TRUE

\* GpuChannel::OnControlMessageReceived: the message map has a handler.  The
\* stream-texture messages have one on Android only; DCHECK(handled) is
\* compiled out of release builds.
ControlHandled(m) ==
    m.type \in {"CreateOffscreenCommandBuffer", "DestroyCommandBuffer"}

\* A wake that waits for a destination that is not registered to become
\* scheduled.
HeadBlockedMissingToo(stub) == ~stub.scheduled \/ IsPreempted(stub)

\* A wake that looks at IsScheduled only.
HeadBlockedUnscheduledOnly(stub) == stub.exists /\ ~stub.scheduled

\* A continuation that queues behind the waiting messages.
PushContinuationBack(q, route) == Append(q, Msg("Rescheduled", route, 0))

\* HandleMessage: the synthesized GpuCommandBufferMsg_Rescheduled goes to the
\* front of the queue.
PushContinuation(q, route) == <<Msg("Rescheduled", route, 0)>> \o q

\* HandleMessage: the head message stays in the queue.
HeadBlocked(stub) == stub.exists /\ (~stub.scheduled \/ IsPreempted(stub))

Logged(log, m) ==
    IF m.id = 0 \/ \E i \in 1..Len(log) : log[i].id = m.id THEN log
    ELSE Append(log, m)

\* A dispatch loop that returns whatever holds the head message up.
PollsAgainNever(stub) == FALSE

\* A dispatch loop that polls whatever holds the head message up.
PollsAgainAlways(stub) == TRUE

\* HandleMessage, head message held up: the wake returns for a stub that is
\* not scheduled and calls OnScheduled for one that is preempted.
PollsAgain(stub) == stub.scheduled

\* A stub that puts the message it cannot handle now at the back.
RequeueMessageBack(c) ==
    [c EXCEPT !.deferred = Append(@, c.current),
              !.processed = @ - 1,
              !.current = NoMsg]

\* GpuChannel::RequeueMessage, called by the stub that is handling
\* currently_processing_message_.
RequeueMessage(c) ==
    [c EXCEPT !.deferred = <<c.current>> \o @,
              !.processed = @ - 1,
              !.current = NoMsg]

\* A channel that creates its offscreen command buffers without the flag.
InstallsNoFlag(preempted) == FALSE

\* OnCreateOffscreenCommandBuffer: the new stub is told of the flag when the
\* channel has one.
InstallsFlag(preempted) == preempted

\* The wake dispatches a GpuChannelMsg_CreateOffscreenCommandBuffer.
OffscreenAtHead ==
    /\ alive
    /\ deferred_messages_ # <<>>
    /\ Head(deferred_messages_).type = "CreateOffscreenCommandBuffer"
    /\ Head(deferred_messages_).route = MSG_ROUTING_CONTROL
    /\ ~HeadBlocked(LookupCommandBuffer(stubs_, Head(deferred_messages_).route))

HandleMessage(o) ==
    /\ mainTasks # <<>>
    /\ Head(mainTasks)[1] = "HandleMessage"
    /\ o.requeue => requeues < MaxRequeues
    /\ OffscreenAtHead => last_id < MaxRoutes
    /\ last_id' = IF OffscreenAtHead THEN last_id + 1 ELSE last_id
    /\ UNCHANGED <<alive, preempted_flag_, preempting_flag_, filterVars,
                   next_sync_point, flag_set, io_effects, sp_task, arrivals>>
    /\ IF ~alive
       THEN \* the task's weak pointer is invalid: nothing runs
            /\ mainTasks' = Tail(mainTasks)
            /\ last_wake' = Wake("gone", NoMsg)
            /\ UNCHANGED <<deferred_messages_, messages_processed_,
                           handle_messages_scheduled_, processed_get_state_fast_,
                           stubs_, ioTasks, retired, error_replies, requeues,
                           dispatch_log>>
       ELSE IF deferred_messages_ = <<>>
       THEN /\ mainTasks' = Tail(mainTasks)
            /\ handle_messages_scheduled_' = FALSE
            /\ last_wake' = Wake("empty", NoMsg)
            /\ UNCHANGED <<deferred_messages_, messages_processed_,
                           processed_get_state_fast_, stubs_, ioTasks, retired,
                           error_replies, requeues, dispatch_log>>
       ELSE LET m == Head(deferred_messages_)
                stub == LookupCommandBuffer(stubs_, m.route)
            IN IF HeadBlocked(stub)
               THEN /\ IF PollsAgain(stub)
                       THEN /\ mainTasks' = OnScheduled(Tail(mainTasks), FALSE)
                            /\ handle_messages_scheduled_' = TRUE
                       ELSE /\ mainTasks' = Tail(mainTasks)
                            /\ handle_messages_scheduled_' = FALSE
                    /\ last_wake' =
                         [Wake(IF stub.scheduled THEN "preempted"
                               ELSE "unscheduled", m)
                          EXCEPT !.stalled =
                              IF ~stub.scheduled /\ m.id # 0 THEN m
                              ELSE last_wake.stalled]
                    /\ UNCHANGED <<deferred_messages_, messages_processed_,
                                   processed_get_state_fast_, stubs_, ioTasks,
                                   retired, error_replies, requeues,
                                   dispatch_log>>
               ELSE LET control == (m.route = MSG_ROUTING_CONTROL)
                        routed == ~control /\ stub.exists
                        \* the stub called RequeueMessage while handling m
                        requeue == routed /\ o.requeue
                        result == IF control THEN ControlHandled(m) ELSE stub.exists
                        \* OnDestroyCommandBuffer
                        victim == LookupCommandBuffer(stubs_, m.arg)
                        destroy == control /\ m.type = "DestroyCommandBuffer"
                                           /\ victim.exists
                        need_reschedule == destroy /\ ~victim.scheduled
                        \* OnCreateOffscreenCommandBuffer
                        create == control /\ m.type = "CreateOffscreenCommandBuffer"
                        stubs1 == IF create
                                  THEN [stubs_ EXCEPT ![last_id + 1] =
                                           NewStub(InstallsFlag(preempted_flag_))]
                                  ELSE IF destroy THEN [stubs_ EXCEPT ![m.arg] = NoStub]
                                  ELSE IF routed
                                  THEN [stubs_ EXCEPT ![m.route] = StubAfter(stub, m, o)]
                                  ELSE stubs_
                        retired1 ==
                            IF destroy THEN RetireAll(retired, victim.sync_points)
                            ELSE IF routed THEN RetiredAfter(retired, m, o)
                            ELSE retired
                        q1 == Tail(deferred_messages_)
                        \* the channel while RouteMessage runs the handler
                        c1 == [deferred |-> q1,
                               processed |-> messages_processed_,
                               current |-> m]
                        c2 == IF requeue THEN RequeueMessage(c1) ELSE c1
                        q2 == c2.deferred
                        p1 == c2.processed
                        cont == result /\ stub.exists
                                       /\ stubs1[m.route].unprocessed
                        q3 == IF cont THEN PushContinuation(q2, m.route) ELSE q2
                        message_processed == ~cont
                        tasks1 == OnScheduled(Tail(mainTasks), ~need_reschedule)
                        tasks2 == IF q3 # <<>>
                                  THEN OnScheduled(tasks1, need_reschedule)
                                  ELSE tasks1
                    IN /\ deferred_messages_' = q3
                       /\ processed_get_state_fast_' = (m.type = GetStateFast)
                       /\ stubs_' = stubs1
                       /\ retired' = retired1
                       /\ error_replies' =
                            IF ~result /\ IsSync(m) THEN error_replies + 1
                            ELSE error_replies
                       /\ messages_processed_' =
                            IF message_processed THEN p1 + 1 ELSE p1
                       /\ ioTasks' =
                            IF message_processed
                            THEN PostMessageProcessed(ioTasks, preempting_flag_, p1 + 1)
                            ELSE ioTasks
                       /\ mainTasks' = tasks2
                       /\ handle_messages_scheduled_' = (need_reschedule \/ q3 # <<>>)
                       /\ requeues' = IF requeue THEN requeues + 1 ELSE requeues
                       /\ dispatch_log' = Logged(dispatch_log, m)
                       /\ last_wake' = [Wake("dispatched", m)
                                     EXCEPT !.result = result,
                                            !.requeued = requeue,
                                            !.cont = cont,
                                            !.in_flight = c2.current.type,
                                            !.stalled =
                                                IF m.route = last_wake.stalled.route
                                                THEN NoMsg
                                                ELSE last_wake.stalled]

\* GpuChannel::CreateViewCommandBuffer, called by the channel manager.
CreateViewCommandBuffer ==
    /\ alive
    /\ last_id < MaxRoutes
    /\ last_id' = last_id + 1
    /\ stubs_' = [stubs_ EXCEPT ![last_id + 1] = NewStub(preempted_flag_)]
    /\ UNCHANGED <<alive, deferred_messages_, messages_processed_,
                   handle_messages_scheduled_, processed_get_state_fast_,
                   preempted_flag_, preempting_flag_, mainTasks, filterVars,
                   ioTasks, next_sync_point, retired, error_replies, flag_set,
                   obsVars>>

\* A channel that makes a flag on every call.
CreatesFlagEveryCall(existing) == TRUE

\* GetPreemptionFlag: a flag is made when the channel has none.
CreatesFlag(existing) == ~existing

\* GpuChannel::GetPreemptionFlag, called by the channel manager.
GetPreemptionFlag ==
    /\ alive
    /\ IF CreatesFlag(preempting_flag_)
       THEN /\ preempting_flag_' = TRUE
            /\ preempting_flag_set' = FALSE
            /\ ioTasks' = Append(ioTasks, <<"SetPreemptingFlag">>)
            /\ preempt_obs' = [preempt_obs EXCEPT !.created = @ + 1]
       ELSE UNCHANGED <<preempting_flag_, preempting_flag_set, ioTasks,
                        preempt_obs>>
    /\ UNCHANGED <<alive, deferred_messages_, messages_processed_,
                   handle_messages_scheduled_, processed_get_state_fast_,
                   stubs_, last_id, preempted_flag_, mainTasks,
                   messages_received_, pending_messages_, preemption_state_,
                   filter_flag_, timer_, channel_, now, next_sync_point,
                   retired, error_replies, flag_set, obsVars>>

\* GpuChannel::SetPreemptByFlag, called by the channel manager.
SetPreemptByFlag ==
    /\ alive
    /\ ~preempted_flag_
    /\ preempted_flag_' = TRUE
    /\ stubs_' = [r \in Routes |->
                    IF stubs_[r].exists THEN [stubs_[r] EXCEPT !.flag = TRUE]
                    ELSE stubs_[r]]
    /\ UNCHANGED <<alive, deferred_messages_, messages_processed_,
                   handle_messages_scheduled_, processed_get_state_fast_,
                   last_id, preempting_flag_, mainTasks, filterVars, ioTasks,
                   next_sync_point, retired, error_replies, flag_set, obsVars>>

\* The channel that owns the flag of preempted_flag_ sets or resets it.
OtherChannelFlag ==
    /\ preempted_flag_
    /\ flag_set' = ~flag_set
    /\ UNCHANGED <<chanVars, mainTasks, filterVars, ioTasks, next_sync_point,
                   retired, error_replies, obsVars>>

\* A stub that was unscheduled becomes scheduled and tells its channel.
StubScheduled(r) ==
    /\ alive
    /\ stubs_[r].exists /\ ~stubs_[r].scheduled
    /\ stubs_' = [stubs_ EXCEPT ![r].scheduled = TRUE]
    /\ mainTasks' = OnScheduled(mainTasks, handle_messages_scheduled_)
    /\ handle_messages_scheduled_' = TRUE
    /\ UNCHANGED <<alive, deferred_messages_, messages_processed_,
                   processed_get_state_fast_, last_id, preempted_flag_,
                   preempting_flag_, filterVars, ioTasks, next_sync_point,
                   retired, error_replies, flag_set, obsVars>>

\* The channel manager removes the channel: ~GpuChannel resets the flag the
\* channel made.  The stubs go with it, each retiring the sync points it
\* still holds.
DestroyChannel ==
    /\ alive
    /\ alive' = FALSE
    /\ stubs_' = [r \in Routes |-> NoStub]
    /\ retired' = RetireStubs(retired, stubs_, Routes)
    /\ deferred_messages_' = <<>>
    /\ preempting_flag_set' = (preempting_flag_set /\ ~preempting_flag_)
    /\ UNCHANGED <<messages_processed_, handle_messages_scheduled_,
                   processed_get_state_fast_, last_id, preempted_flag_,
                   preempting_flag_, mainTasks, messages_received_,
                   pending_messages_, preemption_state_, filter_flag_, timer_,
                   channel_, now, preempt_obs, ioTasks, next_sync_point,
                   error_replies, flag_set, obsVars>>

----------------------------------------------------------------------------
Next ==
    \/ \E m \in TransportMessages : MayReceive /\ FilterOnMessageReceived(m)
    \/ OnFilterRemoved
    \/ Deliver
    \/ InsertSyncPointOnMainThread
    \/ \E o \in Outcomes : HandleMessage(o)
    \/ CreateViewCommandBuffer
    \/ SetPreemptByFlag
    \/ OtherChannelFlag
    \/ \E r \in Routes : StubScheduled(r)
    \/ DestroyChannel
    \/ GetPreemptionFlag
    \/ SetPreemptingFlag
    \/ FilterMessageProcessed
    \/ TimerFires
    \/ Tick

Spec == Init /\ [][Next]_vars

----------------------------------------------------------------------------
\* Specifications.  Spec is the channel with every kind of traffic; the
\* others keep the traffic and the environment one family of properties
\* needs.

\* Sync-point traffic to destinations that are created, stall, are preempted
\* and destroyed, and channel teardown.
SyncMessages ==
    {Msg("InsertSyncPoint", r, 0) : r \in Routes}
    \cup {Msg("DestroyCommandBuffer", MSG_ROUTING_CONTROL, r) : r \in Routes}

NextSync ==
    \/ \E m \in SyncMessages : MayReceive /\ FilterOnMessageReceived(m)
    \/ OnFilterRemoved
    \/ Deliver
    \/ InsertSyncPointOnMainThread
    \/ \E o \in Outcomes : HandleMessage(o)
    \/ CreateViewCommandBuffer
    \/ SetPreemptByFlag
    \/ OtherChannelFlag
    \/ \E r \in Routes : StubScheduled(r)
    \/ DestroyChannel

SyncSpec == Init /\ [][NextSync]_vars

\* Queue traffic to destinations that stall and resume.  The renderer
\* addresses the command buffers it has created.
QueueMessages ==
    {Msg(t, r, 0) : t \in {"AsyncFlush", GetStateFast}, r \in 1..last_id}

NextQueue ==
    \/ \E m \in QueueMessages : MayReceive /\ FilterOnMessageReceived(m)
    \/ Deliver
    \/ \E o \in Outcomes : HandleMessage(o)
    \/ CreateViewCommandBuffer
    \/ \E r \in Routes : StubScheduled(r)

QueueSpec == Init /\ [][NextQueue]_vars

StayScheduled == {o \in Outcomes : o.scheduled}

\* Routed and control traffic, synchronous and not, to destinations that are
\* created and destroyed and stay scheduled.
RouteMessages ==
    {Msg(t, r, 0) : t \in {"AsyncFlush", GetStateFast}, r \in Routes}
    \cup {Msg("DestroyCommandBuffer", MSG_ROUTING_CONTROL, r) : r \in Routes}
    \cup {Msg(t, MSG_ROUTING_CONTROL, 0) :
             t \in {"RegisterStreamTextureProxy", "EstablishStreamTexture"}}

NextRoute ==
    \/ \E m \in RouteMessages : MayReceive /\ FilterOnMessageReceived(m)
    \/ Deliver
    \/ \E o \in StayScheduled : HandleMessage(o)
    \/ CreateViewCommandBuffer

RouteSpec == Init /\ [][NextRoute]_vars

\* A channel that preempts others: it makes a flag, its messages wait in the
\* queue for the dispatch loop while the clock runs, and the filter hears of
\* each message processed.
PreemptMessages == {m \in QueueMessages : m.route = 1}

NextPreempt ==
    \/ \E m \in PreemptMessages : MayReceive /\ FilterOnMessageReceived(m)
    \/ Deliver
    \/ HandleMessage(Clean)
    \/ CreateViewCommandBuffer
    \/ GetPreemptionFlag
    \/ SetPreemptingFlag
    \/ FilterMessageProcessed
    \/ TimerFires
    \/ Tick

PreemptSpec == Init /\ [][NextPreempt]_vars

\* A channel that preempts others and is preempted by another: the channel
\* manager asks it for its flag, hands it the flag of another channel and
\* removes it.
FlagMessages == {m \in QueueMessages : m.route = 1 /\ m.type = "AsyncFlush"}

NextFlag ==
    \/ \E m \in FlagMessages : MayReceive /\ FilterOnMessageReceived(m)
    \/ Deliver
    \/ HandleMessage(Clean)
    \/ CreateViewCommandBuffer
    \/ GetPreemptionFlag
    \/ SetPreemptingFlag
    \/ SetPreemptByFlag
    \/ OtherChannelFlag
    \/ DestroyChannel
    \/ FilterMessageProcessed
    \/ TimerFires
    \/ Tick

FlagSpec == Init /\ [][NextFlag]_vars

\* The preempting channel with a clock that runs long enough for a second
\* preemption.
NextCycle ==
    \/ \E m \in FlagMessages : MayReceive /\ FilterOnMessageReceived(m)
    \/ Deliver
    \/ HandleMessage(Clean)
    \/ CreateViewCommandBuffer
    \/ GetPreemptionFlag
    \/ SetPreemptingFlag
    \/ FilterMessageProcessed
    \/ TimerFires
    \/ Advance(MaxCycleTime)

CycleSpec == Init /\ [][NextCycle]_vars

\* The preempting channel with its main thread held up after the first
\* message: messages arrive at the filter and the later ones are not
\* processed.  Time goes on and a timer that is due runs its task.
NextStall ==
    \/ \E m \in FlagMessages : MayReceive /\ FilterOnMessageReceived(m)
    \/ messages_processed_ = 0 /\ Deliver
    \/ messages_processed_ = 0 /\ HandleMessage(Clean)
    \/ FilterMessageProcessed
    \/ CreateViewCommandBuffer
    \/ GetPreemptionFlag
    \/ SetPreemptingFlag
    \/ TimerFires
    \/ Advance(MaxCycleTime)

TimersRun ==
    /\ WF_vars(TimerFires)
    /\ WF_vars(Advance(MaxCycleTime))

StallSpec == Init /\ [][NextStall]_vars /\ TimersRun

\* The dispatch loop of a channel that makes a flag: flushes to a
\* destination that exists or not, stalls, requeues and is preempted.  No
\* time passes.
WakeMessages == {Msg("AsyncFlush", 1, 0)}

NextWake ==
    \/ \E m \in WakeMessages : MayReceive /\ FilterOnMessageReceived(m)
    \/ Deliver
    \/ \E o \in Outcomes : HandleMessage(o)
    \/ CreateViewCommandBuffer
    \/ SetPreemptByFlag
    \/ OtherChannelFlag
    \/ StubScheduled(1)
    \/ GetPreemptionFlag
    \/ SetPreemptingFlag
    \/ FilterMessageProcessed

WakeSpec == Init /\ [][NextWake]_vars

\* The counts of the filter and of the channel: flushes and sync-point
\* requests to a destination that exists or not, stalls and requeues, in a
\* channel that makes a flag.  No time passes.
CountMessages ==
    {Msg(t, 1, 0) : t \in {"AsyncFlush", "InsertSyncPoint"}}

NextCount ==
    \/ \E m \in CountMessages : MayReceive /\ FilterOnMessageReceived(m)
    \/ Deliver
    \/ InsertSyncPointOnMainThread
    \/ \E o \in Outcomes : HandleMessage(o)
    \/ CreateViewCommandBuffer
    \/ StubScheduled(1)
    \/ GetPreemptionFlag
    \/ SetPreemptingFlag
    \/ FilterMessageProcessed

CountSpec == Init /\ [][NextCount]_vars

\* Messages that are not synchronous, to destinations that are created,
\* stall and are destroyed, and a control message without a handler.
DropMessages ==
    {Msg("AsyncFlush", r, 0) : r \in Routes}
    \cup {Msg("DestroyCommandBuffer", MSG_ROUTING_CONTROL, r) : r \in Routes}
    \cup {Msg("EstablishStreamTexture", MSG_ROUTING_CONTROL, 0)}

NextDrop ==
    \/ \E m \in DropMessages : MayReceive /\ FilterOnMessageReceived(m)
    \/ Deliver
    \/ \E o \in Outcomes : HandleMessage(o)
    \/ CreateViewCommandBuffer
    \/ \E r \in Routes : StubScheduled(r)

DropSpec == Init /\ [][NextDrop]_vars

\* A renderer that creates offscreen command buffers and destroys command
\* buffers, and a channel manager that creates view command buffers and
\* hands the channel the flag of another channel.
CreateMessages ==
    {Msg("CreateOffscreenCommandBuffer", MSG_ROUTING_CONTROL, 0)}
    \cup {Msg("DestroyCommandBuffer", MSG_ROUTING_CONTROL, r) : r \in Routes}

NextCreate ==
    \/ \E m \in CreateMessages : MayReceive /\ FilterOnMessageReceived(m)
    \/ Deliver
    \/ HandleMessage(Clean)
    \/ CreateViewCommandBuffer
    \/ SetPreemptByFlag

CreateSpec == Init /\ [][NextCreate]_vars

\* A renderer that sends RetireSyncPoint messages itself, among flushes and
\* sync-point requests, to a channel that makes a flag.
RetireMessages ==
    {m \in TransportMessages : m.route = 1 /\ m.type # GetStateFast}

NextRetire ==
    \/ \E m \in RetireMessages : MayReceive /\ FilterOnMessageReceived(m)
    \/ Deliver
    \/ InsertSyncPointOnMainThread
    \/ HandleMessage(Clean)
    \/ CreateViewCommandBuffer
    \/ GetPreemptionFlag
    \/ SetPreemptingFlag
    \/ FilterMessageProcessed

RetireSpec == Init /\ [][NextRetire]_vars

\* A channel that is preempted by the flag of another channel, which that
\* channel sets and resets; the destination stays scheduled.  The main
\* message loop runs every task that is posted to it, and a flag that is set
\* is reset in the end.
NextPoll ==
    \/ \E m \in FlagMessages : MayReceive /\ FilterOnMessageReceived(m)
    \/ Deliver
    \/ HandleMessage(Clean)
    \/ CreateViewCommandBuffer
    \/ SetPreemptByFlag
    \/ OtherChannelFlag

PollingRuns ==
    /\ WF_vars(Deliver)
    /\ WF_vars(HandleMessage(Clean))
    /\ WF_vars(flag_set /\ OtherChannelFlag)

PollSpec == Init /\ [][NextPoll]_vars /\ PollingRuns

\* The scenario of two destinations that stay scheduled: a message A for the
\* first, a message B for the second, and two GetStateFast for the first, in
\* that order, with the wakes of the dispatch loop at any point in between.
Scenario ==
    <<Msg("AsyncFlush", 1, 0), Msg("AsyncFlush", 2, 0),
      Msg(GetStateFast, 1, 0), Msg(GetStateFast, 1, 0)>>

NextScenario ==
    \/ CreateViewCommandBuffer
    \/ /\ stubs_[1].exists /\ stubs_[2].exists
       /\ messages_received_ < Len(Scenario)
       /\ FilterOnMessageReceived(Scenario[messages_received_ + 1])
    \/ Deliver
    \/ \E o \in StayScheduled : HandleMessage(o)

ScenarioSpec == Init /\ [][NextScenario]_vars

\* Sync-point requests with the main message loop running every task that is
\* posted to it.  Nothing obliges a destination to become scheduled again,
\* the owner of a preemption flag to reset it, or a destination to finish
\* its commands.
LiveMessages == {Msg("InsertSyncPoint", r, 0) : r \in Routes}

NextLive ==
    \/ \E m \in LiveMessages : MayReceive /\ FilterOnMessageReceived(m)
    \/ InsertSyncPointOnMainThread
    \/ \E o \in Outcomes : HandleMessage(o)
    \/ CreateViewCommandBuffer
    \/ SetPreemptByFlag
    \/ OtherChannelFlag
    \/ \E r \in Routes : StubScheduled(r)
    \/ DestroyChannel

MessageLoopRuns ==
    /\ WF_vars(InsertSyncPointOnMainThread)
    /\ WF_vars(\E o \in Outcomes : HandleMessage(o))

LiveSpec == Init /\ [][NextLive]_vars /\ MessageLoopRuns

----------------------------------------------------------------------------
\* Properties

Generated(t) == t < next_sync_point
TaskPending(t) ==
    \E i \in 1..Len(mainTasks) :
        mainTasks[i][1] = "InsertSyncPoint" /\ mainTasks[i][3] = t
Count(seq, x) == Cardinality({i \in 1..Len(seq) : seq[i] = x})
Position(seq, x) == CHOOSE i \in 1..Len(seq) : seq[i] = x

\* A wake of the dispatch loop, and one that takes the head message off the
\* queue and dispatches it.
HandleMessageStep == \E o \in Outcomes : HandleMessage(o)
HeadDestination == Destination(stubs_, Head(deferred_messages_).route)
DispatchStep ==
    /\ HandleMessageStep
    /\ alive /\ deferred_messages_ # <<>>
    /\ HeadDestination \in {"missing", "ready"}
NonGetStateFastQueued ==
    \E i \in 1..Len(deferred_messages_) : deferred_messages_[i].type # GetStateFast

DestinationsProgress ==
    /\ \A r \in Routes : WF_vars(StubScheduled(r))
    /\ WF_vars(flag_set /\ OtherChannelFlag)
    /\ SF_vars(DispatchStep /\ HandleMessage(Clean))

InsertSyncPointStep == InsertSyncPointOnMainThread

\* C3: an association task that finds the channel destroyed, or no stub under
\* the routing id, retires the token in that task, enqueues nothing and
\* changes nothing else; with the channel alive the processed counter goes up
\* by one.
C3_ForceRetire ==
    [][InsertSyncPointStep =>
         LET routing_id == Head(mainTasks)[2]
             sync_point == Head(mainTasks)[3]
         IN (~alive \/ ~LookupCommandBuffer(stubs_, routing_id).exists) =>
              /\ retired' = [retired EXCEPT ![sync_point] = @ + 1]
              /\ deferred_messages_' = deferred_messages_
              /\ mainTasks' = Tail(mainTasks)
              /\ messages_processed_' =
                    messages_processed_ + (IF alive THEN 1 ELSE 0)
              /\ UNCHANGED <<alive, stubs_, handle_messages_scheduled_,
                             error_replies>>]_vars

\* A token whose destination existed when the request was received and was
\* gone when the task ran, in a channel that was alive; and a token whose
\* task found the channel gone.
C3_Witness ==
    \E t1, t2 \in Tokens :
        /\ sp_task[t1].at_request # "missing" /\ sp_task[t1].path = "no stub"
        /\ sp_task[t1].forced = 1 /\ sp_task[t1].processed = 1
        /\ sp_task[t2].path = "gone" /\ sp_task[t2].forced = 1

\* C4: the reply with the token is sent by the filter in the step that
\* receives the request and before the association task is posted, whatever
\* the state of the queue and of the destination, and the request never
\* reaches the deferred queue.
C4_ReplyOnReceipt ==
    /\ \A t \in Tokens :
         IF Generated(t)
         THEN /\ Count(io_effects, <<"Send", t>>) = 1
              /\ Count(io_effects, <<"PostTask", t>>) = 1
              /\ Position(io_effects, <<"Send", t>>)
                   < Position(io_effects, <<"PostTask", t>>)
         ELSE /\ Count(io_effects, <<"Send", t>>) = 0
              /\ ~TaskPending(t)
    /\ \A i \in 1..Len(deferred_messages_) :
         deferred_messages_[i].type # "InsertSyncPoint"
    /\ \A i \in 1..Len(mainTasks) :
         mainTasks[i][1] = "Deliver" => mainTasks[i][2].type # "InsertSyncPoint"

\* The reply for a request to an unscheduled destination was sent while the
\* head of the queue is stalled on that destination and the association task
\* has not run.
C4_Witness ==
    \E t \in Tokens :
        /\ sp_task[t].at_request = "unscheduled"
        /\ TaskPending(t)
        /\ Count(io_effects, <<"Send", t>>) = 1
        /\ deferred_messages_ # <<>>
        /\ HeadBlocked(LookupCommandBuffer(stubs_, Head(deferred_messages_).route))

\* C5: whenever the deferred queue holds a message that is not a
\* GetStateFast, its first two messages are not both GetStateFast.
C5_NoTwoGetStateFastAtFront ==
    NonGetStateFastQueued =>
        ~(/\ Len(deferred_messages_) >= 2
          /\ deferred_messages_[1].type = GetStateFast
          /\ deferred_messages_[2].type = GetStateFast)

\* C6: a wake that dispatches a GetStateFast directly after the dispatch of a
\* GetStateFast finds no other kind of message in the queue.  Stated for runs
\* in which no message was requeued, so that the two dispatches are of two
\* messages.
C6_NoConsecutiveGetStateFast ==
    [][(/\ DispatchStep
        /\ requeues = 0
        /\ processed_get_state_fast_
        /\ Head(deferred_messages_).type = GetStateFast)
       => ~NonGetStateFastQueued]_vars

Ids(seq) == [i \in 1..Len(seq) |-> seq[i].id]

C8_ArrivalOrder ==
    \A i, j \in 1..Len(dispatch_log) :
        (/\ i < j
         /\ dispatch_log[i].type # GetStateFast
         /\ dispatch_log[j].type # GetStateFast)
        => dispatch_log[i].id < dispatch_log[j].id

\* Two messages were dispatched in arrival order although the first was
\* requeued and a GetStateFast that arrived after both overtook the second.
C8_Witness ==
    /\ Len(dispatch_log) = 3
    /\ dispatch_log[1].type # GetStateFast
    /\ dispatch_log[2].type = GetStateFast
    /\ dispatch_log[3].type # GetStateFast
    /\ dispatch_log[2].id > dispatch_log[3].id
    /\ requeues = 1

\* C9: a wake that finds a destination registered under the head message's
\* routing id, and finds it unscheduled or preempted, dispatches nothing: the
\* queue, the processed counter and processed_get_state_fast_ stay as they
\* were, and so do the destinations and the retired sync points.
C9_BlockedWakeDispatchesNothing ==
    [][(/\ HandleMessageStep
        /\ alive /\ deferred_messages_ # <<>>
        /\ HeadDestination \in {"unscheduled", "preempted"})
       => UNCHANGED <<deferred_messages_, messages_processed_,
                      processed_get_state_fast_, stubs_, retired, ioTasks,
                      error_replies, dispatch_log>>]_vars

\* After earlier dispatches, a wake found the head's destination preempted
\* and the message is still at the head.
C9_Witness ==
    /\ last_wake.outcome = "preempted"
    /\ messages_processed_ > 0
    /\ deferred_messages_ # <<>>
    /\ Head(deferred_messages_).route = last_wake.route
    /\ HeadDestination = "preempted"

ContinuationQueued ==
    \E i \in 1..Len(deferred_messages_) : deferred_messages_[i].type = "Rescheduled"

\* C10 as stated: while a continuation is queued, every dispatch is of a
\* message for the continuation's destination.
C10_NoOtherDestinationFirst ==
    [][(DispatchStep /\ ContinuationQueued) =>
         \A i \in 1..Len(deferred_messages_) :
             deferred_messages_[i].type = "Rescheduled" =>
                 Head(deferred_messages_).route = deferred_messages_[i].route]_vars

\* C10: a dispatch that leaves the destination with unprocessed commands puts
\* the continuation at the front of the queue, and while a continuation is
\* queued every dispatch is of a continuation or of a GetStateFast: no other
\* received message is dispatched before the continuation.
C10_OnlyGetStateFastOvertakes ==
    [][/\ (DispatchStep /\ last_wake'.cont) =>
            /\ Head(deferred_messages_').type = "Rescheduled"
            /\ Head(deferred_messages_').route = Head(deferred_messages_).route
       /\ (DispatchStep /\ ContinuationQueued) =>
            Head(deferred_messages_).type \in {"Rescheduled", GetStateFast}]_vars

\* A GetStateFast for another destination was dispatched while the
\* continuation was waiting in the queue.
C10_Witness ==
    /\ last_wake.outcome = "dispatched"
    /\ last_wake.type = GetStateFast
    /\ ~last_wake.cont /\ ~last_wake.requeued
    /\ deferred_messages_ # <<>>
    /\ Head(deferred_messages_).type = "Rescheduled"
    /\ Head(deferred_messages_).route # last_wake.route

\* The head message cannot be routed: no stub under its routing id, or a
\* control message the channel has no handler for.
HeadFailsToRoute ==
    LET m == Head(deferred_messages_)
    IN IF m.route = MSG_ROUTING_CONTROL
       THEN m.type \notin {"DestroyCommandBuffer"}
       ELSE ~LookupCommandBuffer(stubs_, m.route).exists

----------------------------------------------------------------------------
\* Handlers are tasks of the main message loop and run to completion, so a
\* dispatch in progress is the inside of one HandleMessage step.  The calls
\* that reach OnMessageReceived or OnScheduled from outside a dispatch are
\* the steps below; the call of OnScheduled inside a dispatch is the one
\* OnDestroyCommandBuffer makes for a stub that was not scheduled.
ArrivalStep ==
    \/ Deliver
    \/ InsertSyncPointOnMainThread
    \/ \E r \in Routes : StubScheduled(r)
WakesPosted ==
    Cardinality({i \in 1..Len(mainTasks) : mainTasks[i] = HandleMessageTask})

\* C12: dispatch is never re-entered.  A message arrival or an OnScheduled
\* call dispatches nothing itself: it leaves the dispatch record, the error
\* replies and the queue's earlier messages alone and at most posts a wake;
\* one wake takes at most one message off the queue, also when the handler
\* it runs calls OnScheduled; and at most one wake is posted at any time, the
\* one handle_messages_scheduled_ stands for while the channel exists.
C12_DispatchNotReentered ==
    [][/\ ArrivalStep =>
            /\ UNCHANGED <<dispatch_log, last_wake, error_replies,
                           processed_get_state_fast_>>
            /\ Len(deferred_messages_') >= Len(deferred_messages_)
       /\ HandleMessageStep =>
            /\ Len(dispatch_log') <= Len(dispatch_log) + 1
            /\ Len(deferred_messages_') >= Len(deferred_messages_) - 1
       /\ WakesPosted' <= 1
       /\ alive' /\ handle_messages_scheduled_' => WakesPosted' = 1]_vars

\* The wake dispatched the DestroyCommandBuffer of the only destination,
\* which was not scheduled: OnScheduled ran inside the dispatch, and with the
\* queue empty the wake that is posted is the one it asked for.
C12_Witness ==
    /\ last_wake.outcome = "dispatched"
    /\ last_wake.type = "DestroyCommandBuffer"
    /\ last_id = 1 /\ ~stubs_[1].exists
    /\ deferred_messages_ = <<>>
    /\ mainTasks = <<HandleMessageTask>>
    /\ handle_messages_scheduled_

----------------------------------------------------------------------------
\* Preemption

\* A step in which the filter runs UpdatePreemptionState on its own thread:
\* a message arrives, the channel reports messages processed, or the timer
\* runs its task.
ArrivalAtFilter == \E m \in TransportMessages : FilterOnMessageReceived(m)

\* C13: the flag is set only while the filter is PREEMPTING, and a filter
\* that is PREEMPTING has its timer set to return it to IDLE
\* kMaxPreemptTimeMs after it entered the state, is never found in the state
\* later than that, and is out of it with the flag cleared once that timer
\* has run, whatever is pending and whatever was processed.
C13_FlagHeldAtMostMaxPreemptTime ==
    [][/\ preempting_flag_set' => preemption_state_' = "PREEMPTING"
       /\ preemption_state_' = "PREEMPTING" =>
            /\ timer_' = [task |-> "TransitionToIdle",
                          due |-> preempt_obs'.entered + kMaxPreemptTimeMs]
            /\ now' - preempt_obs'.entered <= kMaxPreemptTimeMs
       /\ TimerFires /\ preemption_state_ = "PREEMPTING" =>
            /\ preemption_state_' \in {"IDLE", "WAITING"}
            /\ ~preempting_flag_set']_vars

\* The timer ended a preemption with the whole backlog waiting and no
\* message processed.
C13_Witness ==
    /\ preempt_obs.sets = 1
    /\ now = preempt_obs.entered + kMaxPreemptTimeMs
    /\ preemption_state_ = "WAITING"
    /\ preempt_obs.left_idle = now
    /\ ~preempting_flag_set
    /\ Len(pending_messages_) = MaxMessages
    /\ messages_processed_ = 0

\* C14: a step takes the filter into PREEMPTING only with a record pending
\* whose front has waited kPreemptWaitTimeMs or more, and kPreemptWaitTimeMs
\* or more after the filter last left IDLE; the filter leaves WAITING only
\* when that interval is over; and the flag goes from clear to set only in a
\* step into PREEMPTING, so messages processed before the front record is
\* that old do not set it.
C14_PreemptsOnlyAfterGrace ==
    [][/\ preemption_state_ # "PREEMPTING" /\ preemption_state_' = "PREEMPTING" =>
            /\ pending_messages_' # <<>>
            /\ Elapsed(pending_messages_', now') >= kPreemptWaitTimeMs
            /\ now' - preempt_obs'.left_idle >= kPreemptWaitTimeMs
       /\ preemption_state_ = "WAITING" /\ preemption_state_' # "WAITING" =>
            now' - preempt_obs'.left_idle >= kPreemptWaitTimeMs
       /\ ~preempting_flag_set /\ preempting_flag_set' =>
            preemption_state_ # "PREEMPTING" /\ preemption_state_' = "PREEMPTING"
       /\ preempt_obs'.sets # preempt_obs.sets => preempting_flag_set']_vars

\* The filter let a burst pass: it was CHECKING while messages were
\* processed in time, and entered PREEMPTING later, for a message that
\* waited.
C14_Witness ==
    /\ preemption_state_ = "PREEMPTING"
    /\ preempting_flag_set
    /\ now = preempt_obs.entered
    /\ preempt_obs.entered > preempt_obs.left_idle + kPreemptWaitTimeMs
    /\ messages_processed_ >= 1
    /\ Elapsed(pending_messages_, now) = kPreemptWaitTimeMs

FilterUpdateStep == ArrivalAtFilter \/ FilterMessageProcessed \/ TimerFires

\* What a state update of the filter finds: a record whose front has waited
\* the grace interval.
FindsOldBacklog ==
    /\ filter_flag_
    /\ pending_messages_' # <<>>
    /\ Elapsed(pending_messages_', now) >= kPreemptWaitTimeMs

\* C15 as stated: in whatever state the filter is, a state update that finds
\* the front record at or above the grace threshold leaves the flag set.
C15_SetAtNextUpdate ==
    [][FilterUpdateStep /\ FindsOldBacklog => preempting_flag_set']_vars

\* C15, amended: a state update that finds the front record at or above the
\* grace threshold leaves the flag set when the filter is CHECKING, when it
\* is the timer ending WAITING, and when the filter is PREEMPTING and the
\* update is not the timer ending the preemption; a message arrival or a
\* processed notification in WAITING leaves the filter WAITING with the flag
\* clear.
C15_SetAtNextUpdateWhenChecking ==
    [][/\ /\ FilterUpdateStep /\ FindsOldBacklog
          /\ \/ preemption_state_ = "CHECKING"
             \/ preemption_state_ = "WAITING" /\ TimerFires
             \/ preemption_state_ = "PREEMPTING" /\ ~TimerFires
          => preempting_flag_set' /\ preemption_state_' = "PREEMPTING"
       /\ FilterUpdateStep /\ preemption_state_ = "WAITING" /\ ~TimerFires
          => ~preempting_flag_set' /\ preemption_state_' = "WAITING"]_vars

\* The filter was CHECKING with two records pending, the front one younger
\* than the grace interval, and its timer found it old enough.
C15_Witness ==
    /\ preemption_state_ = "PREEMPTING"
    /\ preempting_flag_set
    /\ now = preempt_obs.entered
    /\ preempt_obs.entered > preempt_obs.left_idle + kPreemptWaitTimeMs
    /\ Len(pending_messages_) >= 2
    /\ Elapsed(pending_messages_, now) >= kPreemptWaitTimeMs
    /\ timer_ = MaxPreemptTimer(now)

\* C16: the flag a channel made is set only while that channel's filter is
\* PREEMPTING; the channel makes one flag however often it is asked for it;
\* Set is called only by a state update of the filter the flag was installed
\* in; and no step of the channel changes the flag it was handed by another
\* channel, which it only reads.
C16_OnlyTheCreatorPreempts ==
    [][/\ preempting_flag_set' => preemption_state_' = "PREEMPTING"
       /\ preempt_obs'.created <= 1
       /\ preempt_obs'.sets # preempt_obs.sets => FilterUpdateStep /\ filter_flag_
       /\ flag_set' # flag_set =>
            UNCHANGED <<chanVars, mainTasks, filterVars, ioTasks>>]_vars

\* The channel holds the flag it made, set by its filter, and the flag of
\* another channel, which that channel has set.
C16_Witness ==
    /\ preempt_obs.created = 1
    /\ preempting_flag_set /\ preemption_state_ = "PREEMPTING"
    /\ preempted_flag_ /\ flag_set
    /\ \E r \in Routes : stubs_[r].exists /\ IsPreempted(stubs_[r])

\* C17: a message arrival or a processed notification that finds the filter
\* PREEMPTING and leaves no record pending, or a front record younger than
\* kStopPreemptThresholdMs, ends the preemption in that step: the flag is
\* clear, and the filter is IDLE with the timer stopped when nothing is
\* pending and WAITING with the timer started anew for kPreemptWaitTimeMs
\* when records are.  Any other such update leaves the preemption as it is.
C17_StopsPreemptingEarly ==
    [][(ArrivalAtFilter \/ FilterMessageProcessed)
        /\ preemption_state_ = "PREEMPTING" =>
          IF pending_messages_' = <<>>
          THEN /\ ~preempting_flag_set'
               /\ preemption_state_' = "IDLE"
               /\ timer_' = NoTimer
          ELSE IF Elapsed(pending_messages_', now) < kStopPreemptThresholdMs
          THEN /\ ~preempting_flag_set'
               /\ preemption_state_' = "WAITING"
               /\ timer_' = StartTimer("TransitionToChecking", now,
                                       kPreemptWaitTimeMs)
               /\ preempt_obs'.left_idle = now
          ELSE /\ preempting_flag_set'
               /\ preemption_state_' = "PREEMPTING"
               /\ timer_' = timer_]_vars

\* A preemption ended before its time was up, for a front record younger
\* than the threshold, and the filter waits again.
C17_Witness ==
    /\ preempt_obs.sets = 1
    /\ now - preempt_obs.entered < kMaxPreemptTimeMs
    /\ preemption_state_ = "WAITING"
    /\ preempt_obs.left_idle = now
    /\ ~preempting_flag_set
    /\ pending_messages_ # <<>>
    /\ Elapsed(pending_messages_, now) < kStopPreemptThresholdMs

\* C18: between the tasks of the I/O thread a filter that is IDLE has no
\* flag or no record pending.
C18_IdleWithoutFlagOrBacklog ==
    preemption_state_ = "IDLE" => ~filter_flag_ \/ pending_messages_ = <<>>

\* The filter is back in IDLE with its flag installed: the backlog that made
\* it preempt has drained.
C18_Witness ==
    /\ preemption_state_ = "IDLE"
    /\ filter_flag_
    /\ preempt_obs.sets >= 1
    /\ preempt_obs.pushed >= 2
    /\ pending_messages_ = <<>>

\* The messages the filter made a record of and the dispatch loop has not
\* dispatched.  The filter makes records from the time its flag is installed,
\* and with the traffic of PreemptSpec and FlagSpec the n-th message the
\* filter counts is the n-th the channel receives.
Recorded == (messages_received_ - preempt_obs.pushed + 1)..messages_received_
Unprocessed ==
    {n \in Recorded : \A k \in 1..Len(dispatch_log) : dispatch_log[k].id # n}
NotificationInFlight ==
    \E k \in 1..Len(ioTasks) : ioTasks[k][1] = "MessageProcessed"

\* C19: when the filter has heard of every message processed, the front
\* record is that of the oldest recorded message not yet dispatched.
C19_FrontIsOldestUnprocessed ==
    pending_messages_ # <<>> /\ ~NotificationInFlight =>
        /\ Unprocessed # {}
        /\ \A n \in Unprocessed : Head(pending_messages_).message_number <= n
        /\ Head(pending_messages_).message_number \in Unprocessed

----------------------------------------------------------------------------
\* Teardown and the shape of the state machine

\* C21: once the channel is destroyed, and while its filter is still attached
\* to the transport on the I/O thread, the flag the channel made is not set.
C21_FlagClearAfterDestroy ==
    ~alive /\ channel_ => ~preempting_flag_set

StateAssertions ==
    {"TransitionToWaiting: state", "TransitionToIdle: state",
     "TransitionToPreempting: state", "TransitionToChecking: state"}

\* What a task of the I/O thread can make of the state by going along the
\* four transitions: the timer that ends WAITING may go on to PREEMPTING, and
\* a return to IDLE with records pending goes on to WAITING.
StateSteps ==
    {<<"IDLE", "WAITING">>, <<"WAITING", "CHECKING">>,
     <<"WAITING", "PREEMPTING">>, <<"CHECKING", "PREEMPTING">>,
     <<"PREEMPTING", "IDLE">>, <<"PREEMPTING", "WAITING">>}

\* C22: no transition function is ever called in a state other than its
\* source state, so preemption_state_, which only these functions assign,
\* changes along IDLE to WAITING, WAITING to CHECKING, CHECKING to PREEMPTING
\* and PREEMPTING to IDLE only; a task changes it by one of these or by two
\* of them in a row.
C22_TransitionsFromTheirSourceState ==
    [][/\ preempt_obs'.failed \cap StateAssertions = {}
       /\ preemption_state_' # preemption_state_ =>
            /\ <<preemption_state_, preemption_state_'>> \in StateSteps
            /\ FilterUpdateStep]_vars

\* The filter has been round the cycle, with every message of the run
\* received and processed on the way, the last one ending the preemption.
C22_Witness ==
    /\ preempt_obs.sets = 1
    /\ preemption_state_ = "IDLE"
    /\ now - preempt_obs.entered < kMaxPreemptTimeMs
    /\ preempt_obs.pushed = MaxMessages
    /\ messages_processed_ = MaxMessages
    /\ preempt_obs.failed = {}

\* C23: between the tasks of the I/O thread, while the channel exists, the
\* flag the channel made is set exactly when its filter is PREEMPTING.
C23_FlagSetIffPreempting ==
    alive => (preempting_flag_set <=> preemption_state_ = "PREEMPTING")

\* The channel exists and its filter has been PREEMPTING for a while, with a
\* backlog, the flag set all along.
C23_Witness ==
    /\ alive
    /\ preemption_state_ = "PREEMPTING"
    /\ preempting_flag_set
    /\ now > preempt_obs.entered
    /\ Len(pending_messages_) >= 2

TimerAssertions ==
    {"UpdatePreemptionState: timer", "TransitionToWaiting: timer",
     "TransitionToChecking: timer"}

\* C24: between the tasks of the I/O thread the timer is as the state wants
\* it: stopped in IDLE, set for TransitionToChecking in WAITING, set for
\* TransitionToIdle in PREEMPTING, and in CHECKING with a record pending set
\* for another UpdatePreemptionState; and no assertion about the timer has
\* failed.
C24_TimerMatchesState ==
    /\ preemption_state_ = "IDLE" => timer_ = NoTimer
    /\ preemption_state_ = "WAITING" => timer_.task = "TransitionToChecking"
    /\ preemption_state_ = "PREEMPTING" => timer_.task = "TransitionToIdle"
    /\ preemption_state_ = "CHECKING" /\ pending_messages_ # <<>> =>
          timer_.task = "UpdatePreemptionState"
    /\ preempt_obs.failed \cap TimerAssertions = {}

\* The filter is CHECKING a record that arrived after the grace interval of
\* an earlier one, which was processed in time; the timer is set for the
\* time the record will have waited that long.
C24_Witness ==
    /\ preemption_state_ = "CHECKING"
    /\ Len(pending_messages_) = 1
    /\ Head(pending_messages_).time_received > preempt_obs.left_idle + kPreemptWaitTimeMs
    /\ timer_ = [task |-> "UpdatePreemptionState",
                 due |-> Head(pending_messages_).time_received + kPreemptWaitTimeMs]
    /\ now > Head(pending_messages_).time_received

\* C25: a step that takes the filter into PREEMPTING after an earlier
\* preemption is at least kPreemptWaitTimeMs after the step that ended that
\* preemption.
C25_WaitsBetweenPreemptions ==
    [][/\ preemption_state_ # "PREEMPTING" /\ preemption_state_' = "PREEMPTING"
       /\ preempt_obs.sets >= 1
       => now' - preempt_obs.ended >= kPreemptWaitTimeMs]_vars

\* The second preemption: the first was ended by the timer with the front
\* record, which is still there, older than the threshold, and the filter
\* waited the interval all the same.
C25_Witness ==
    /\ preempt_obs.sets = 2
    /\ preemption_state_ = "PREEMPTING"
    /\ now = preempt_obs.entered
    /\ preempt_obs.entered = preempt_obs.ended + kPreemptWaitTimeMs
    /\ Elapsed(pending_messages_, preempt_obs.ended) >=
          kPreemptWaitTimeMs + kMaxPreemptTimeMs

\* The front record is that of message n, and the filter has preempted k
\* times.
FrontStuck(n, k) ==
    /\ filter_flag_
    /\ pending_messages_ # <<>>
    /\ Head(pending_messages_).message_number = n
    /\ preempt_obs.sets = k

\* C26: with time going on and timers running, a filter with a flag whose
\* front record stays pending goes on to preempt, the first time and again
\* after each return to IDLE: the record is popped or the filter sets the
\* flag once more.  The clock of a run has to leave the time for it: the
\* rest of a preemption and the wait that follows.
C26_EventuallyPreempts ==
    \A n \in 1..MaxMessages : \A k \in 0..1 :
        (FrontStuck(n, k)
            /\ now + kMaxPreemptTimeMs + kPreemptWaitTimeMs <= MaxCycleTime)
        ~> (~FrontStuck(n, k))

\* The second preemption for a record that became the front one when the
\* record before it was popped.
C26_Witness ==
    /\ FrontStuck(2, 2)
    /\ preemption_state_ = "PREEMPTING"
    /\ messages_processed_ = 1

\* The message numbers of the records grow from the front to the back.
StrictlyIncreasing(pending) ==
    \A i \in 1..Len(pending) : \A j \in 1..Len(pending) :
        i < j => pending[i].message_number < pending[j].message_number

\* The records above a count, in their order.
RecordsAbove(pending, n) ==
    SelectSeq(pending, LAMBDA r : r.message_number > n)

\* C27: the message numbers of the pending records are strictly increasing,
\* and MessageProcessed(n) leaves exactly the records with a number above n,
\* in the order they had.
C27_PopsUpToCount ==
    [][/\ StrictlyIncreasing(pending_messages_')
       /\ FilterMessageProcessed =>
            pending_messages_' =
                RecordsAbove(pending_messages_, Head(ioTasks)[2])]_vars

\* Every message was recorded, the first record has been popped, and the
\* two after it are pending.
C27_Witness ==
    /\ preempt_obs.pushed = MaxMessages
    /\ Len(pending_messages_) = MaxMessages - 1
    /\ Head(pending_messages_).message_number = 2

\* The decrement a RequeueMessage call made while the wake's message was
\* handled.
RequeueDecrement == IF last_wake'.requeued THEN 1 ELSE 0

\* The wake took a message off the queue and synthesized no continuation.
ProcessedMessage == last_wake'.outcome = "dispatched" /\ ~last_wake'.cont

\* C28: a wake that takes a message off the queue and synthesizes no
\* continuation increments messages_processed_ once and, when the channel
\* has made a preemption flag, posts one notification to the I/O thread that
\* carries the count after the increment; any other wake does not increment
\* the count and posts nothing.  The count is otherwise changed only by the
\* decrement of a RequeueMessage call of the handler.
C28_CountedOncePerProcessedMessage ==
    [][HandleMessageStep =>
        IF ProcessedMessage
        THEN /\ messages_processed_' =
                    messages_processed_ - RequeueDecrement + 1
             /\ ioTasks' =
                    IF preempting_flag_
                    THEN Append(ioTasks,
                                <<"MessageProcessed", messages_processed_'>>)
                    ELSE ioTasks
        ELSE /\ messages_processed_' = messages_processed_ - RequeueDecrement
             /\ ioTasks' = ioTasks]_vars

\* The second message was processed by a channel with a flag, and its
\* notification is the last one posted.
C28_Witness ==
    /\ last_wake.outcome = "dispatched"
    /\ ~last_wake.cont
    /\ ~last_wake.requeued
    /\ preempting_flag_
    /\ messages_processed_ = 2
    /\ ioTasks # <<>>
    /\ ioTasks[Len(ioTasks)] = <<"MessageProcessed", 2>>

\* messages_processed_ is a uint64 (its decrement in RequeueMessage wraps):
\* a count of the model below zero stands for the wrapped value, 2^64 plus
\* the count, which is above every count of messages received.
Uint64AtMost(count, received) == count >= 0 /\ count <= received

\* The counts of the notifications on their way to the filter.
CountsPosted ==
    {ioTasks[i][2] : i \in {k \in 1..Len(ioTasks) :
                                ioTasks[k][1] = "MessageProcessed"}}

\* Nothing is queued and no task of the main thread is pending.
MainThreadIdle == deferred_messages_ = <<>> /\ mainTasks = <<>>

\* C29: the channel's count of processed messages is at most the filter's
\* count of received ones, and so is every count on its way to the filter;
\* the two are equal when nothing is queued and no task of the main thread
\* is pending.
C29_ProcessedWithinReceived ==
    /\ Uint64AtMost(messages_processed_, messages_received_)
    /\ \A n \in CountsPosted : Uint64AtMost(n, messages_received_)
    /\ MainThreadIdle => messages_processed_ = messages_received_

\* The position in a queue of the message the channel numbered id, 0 when it
\* is not there.
PositionOf(q, id) ==
    IF \E i \in 1..Len(q) : q[i].id = id
    THEN CHOOSE i \in 1..Len(q) : q[i].id = id
    ELSE 0

\* The queued messages that have been dispatched before: the copies
\* RequeueMessage made.
RequeuedWaiting ==
    {i \in 1..Len(deferred_messages_) :
        /\ deferred_messages_[i].id # 0
        /\ \E k \in 1..Len(dispatch_log) :
               dispatch_log[k].id = deferred_messages_[i].id}

\* A message that is queued behind a requeued one stays behind it for as
\* long as the requeued one is in the queue.
StaysAhead ==
    \A i \in RequeuedWaiting : \A j \in (i + 1)..Len(deferred_messages_) :
        LET pm == PositionOf(deferred_messages_', deferred_messages_[i].id)
            px == PositionOf(deferred_messages_', deferred_messages_[j].id)
        IN deferred_messages_[j].id # 0 /\ pm # 0 => px > pm

\* The wake's handler called RequeueMessage.
RequeueStep == HandleMessageStep /\ last_wake'.requeued

\* The queue a requeueing wake leaves, without the continuation it may have
\* synthesized in front.
QueueAfterRequeue ==
    IF last_wake'.cont THEN Tail(deferred_messages_')
    ELSE deferred_messages_'

\* What RequeueMessage does to the queue and the marker: the message of the
\* wake is at the front again, before the messages that were behind it in
\* their order, and currently_processing_message_ is cleared.
RequeueFrame ==
    /\ QueueAfterRequeue = deferred_messages_
    /\ last_wake'.in_flight = "none"

WithoutPosition(q, p) == SubSeq(q, 1, p - 1) \o SubSeq(q, p + 1, Len(q))

\* The position of the first message of a queue that is not a GetStateFast,
\* 0 when it holds none.
FirstNonGetStateFast(q) ==
    IF \E i \in 1..Len(q) : q[i].type # GetStateFast
    THEN CHOOSE i \in 1..Len(q) :
             /\ q[i].type # GetStateFast
             /\ \A j \in 1..(i - 1) : q[j].type = GetStateFast
    ELSE 0

\* Where the claim has an arriving message go.
PlaceOfArrival(q, last_was_gsf, m) ==
    IF m.type # GetStateFast THEN Len(q) + 1
    ELSE IF ~last_was_gsf THEN 1
    ELSE IF FirstNonGetStateFast(q) = 0 THEN Len(q) + 1
    ELSE FirstNonGetStateFast(q) + 1

\* GpuChannel::OnMessageReceived runs for a message of the transport.
ChannelReceives == Deliver /\ alive

\* C31: processed_get_state_fast_ tells whether the message dispatched last
\* was a GetStateFast; an arriving GetStateFast goes right after the first
\* message that is not a GetStateFast when it does (to the end when there is
\* none) and to the front when it does not, any other message goes to the
\* back, and the messages already queued keep their order.
C31_PlaceOfArrival ==
    [][/\ ChannelReceives =>
            LET m == Stamp(Head(mainTasks)[2], arrivals + 1)
                p == PlaceOfArrival(deferred_messages_,
                                    processed_get_state_fast_, m)
            IN /\ Len(deferred_messages_') = Len(deferred_messages_) + 1
               /\ deferred_messages_'[p] = m
               /\ WithoutPosition(deferred_messages_', p) = deferred_messages_
       /\ processed_get_state_fast_' =
            IF HandleMessageStep /\ last_wake'.outcome = "dispatched"
            THEN Head(deferred_messages_).type = GetStateFast
            ELSE processed_get_state_fast_]_vars

\* After the dispatch of a GetStateFast that left a continuation, a
\* GetStateFast was put between the continuation and a message that had
\* arrived before it.
C31_Witness ==
    /\ processed_get_state_fast_
    /\ Len(deferred_messages_) = 3
    /\ deferred_messages_[1].type = "Rescheduled"
    /\ deferred_messages_[2].type = GetStateFast
    /\ deferred_messages_[3].type = "AsyncFlush"
    /\ deferred_messages_[2].id > deferred_messages_[3].id

\* The step posts a wake where none was pending.
WakePosted == WakesPosted = 0 /\ WakesPosted' > 0

\* The step is one in which a message arrives at the channel: from the
\* transport, or the RetireSyncPoint message of an association task.
ArrivalAtChannel == Deliver \/ InsertSyncPointOnMainThread

\* The wake dispatches the DestroyCommandBuffer of a destination that is
\* not scheduled.
DestroysUnscheduled ==
    /\ DispatchStep
    /\ Head(deferred_messages_).type = "DestroyCommandBuffer"
    /\ LookupCommandBuffer(stubs_, Head(deferred_messages_).arg).exists
    /\ ~LookupCommandBuffer(stubs_, Head(deferred_messages_).arg).scheduled

\* C32: a wake that finds the destination of the head message preempted
\* takes nothing off the queue and leaves one wake posted; a wake that finds
\* it unscheduled takes nothing off the queue and leaves none posted, and
\* from then on a wake is posted only by a destination that becomes
\* scheduled or by the arrival of a message; the destruction of an
\* unscheduled destination, which is itself a dispatch, leaves a wake posted.
C32_PreemptedPollsUnscheduledWaits ==
    [][/\ (HandleMessageStep /\ last_wake'.outcome = "preempted") =>
            /\ WakesPosted' = 1
            /\ handle_messages_scheduled_'
            /\ UNCHANGED <<deferred_messages_, dispatch_log>>
       /\ (HandleMessageStep /\ last_wake'.outcome = "unscheduled") =>
            /\ WakesPosted' = 0
            /\ ~handle_messages_scheduled_'
            /\ UNCHANGED <<deferred_messages_, dispatch_log>>
       /\ WakePosted =>
            \/ \E r \in Routes : StubScheduled(r)
            \/ ArrivalAtChannel
       /\ DestroysUnscheduled => WakesPosted' = 1]_vars

\* The last wake found the destination unscheduled; the destination has
\* become scheduled since, and the wake it asked for is posted.
C32_Witness ==
    /\ last_wake.outcome = "unscheduled"
    /\ deferred_messages_ # <<>>
    /\ Head(deferred_messages_).route = last_wake.route
    /\ HeadDestination = "ready"
    /\ mainTasks = <<HandleMessageTask>>

\* C33: at most one HandleMessage task is posted at any time, and while the
\* channel exists handle_messages_scheduled_ is true exactly when one is.
C33_OneWakePending ==
    /\ WakesPosted <= 1
    /\ alive => (handle_messages_scheduled_ <=> WakesPosted = 1)

\* Two messages have arrived at the channel, each arrival calling
\* OnScheduled, before any wake ran: one task is posted.
C33_Witness ==
    /\ alive
    /\ last_wake.outcome = "none"
    /\ Len(deferred_messages_) = 2
    /\ WakesPosted = 1
    /\ handle_messages_scheduled_

\* Messages are queued and no wake is posted.
QueueAsleep == alive /\ deferred_messages_ # <<>> /\ WakesPosted = 0

\* C34: when messages are queued and no wake is posted, the destination of
\* the head message is registered and not scheduled, and the most recent
\* wake found it so and dispatched nothing.
C34_NoWakeLost ==
    QueueAsleep =>
        /\ HeadDestination = "unscheduled"
        /\ last_wake.outcome = "unscheduled"
        /\ last_wake.route = Head(deferred_messages_).route

\* Two messages are queued behind a destination the last wake found
\* unscheduled, and no wake is posted.
C34_Witness ==
    /\ QueueAsleep
    /\ Len(deferred_messages_) >= 2
    /\ last_wake.outcome = "unscheduled"
    /\ ~handle_messages_scheduled_

\* The received message a wake found at the head of the queue with its
\* destination not scheduled.
StalledMessage == last_wake.stalled

\* That destination is registered and has not been scheduled since.
HeldUp ==
    /\ alive
    /\ StalledMessage # NoMsg
    /\ Destination(stubs_, StalledMessage.route) = "unscheduled"

StalledPosition == PositionOf(deferred_messages_, StalledMessage.id)

\* The message that arrives in the step is put ahead of the stalled one.
PlacedAhead ==
    PositionOf(deferred_messages_', arrivals + 1)
        < PositionOf(deferred_messages_', StalledMessage.id)

\* The messages queued behind the stalled one are behind it after the step.
StaysBehind ==
    \A j \in (StalledPosition + 1)..Len(deferred_messages_) :
        deferred_messages_[j].id # 0 =>
            PositionOf(deferred_messages_', deferred_messages_[j].id)
                > PositionOf(deferred_messages_', StalledMessage.id)

\* C35 as stated: while a message is held up at the head of the queue by a
\* destination that stays unscheduled, no message queued behind it is
\* dispatched, and what is dispatched is a GetStateFast that arrived while
\* the message dispatched last was not a GetStateFast.
C35_OnlyGetStateFastAhead ==
    [][HeldUp =>
        /\ StaysBehind
        /\ DispatchStep => Head(deferred_messages_).type = GetStateFast
        /\ (ChannelReceives /\ PlacedAhead) =>
              /\ Head(mainTasks)[2].type = GetStateFast
              /\ ~processed_get_state_fast_]_vars

\* C35, amended: the stalled message stays in the queue with the messages
\* that were behind it behind it; what is ahead of it, and so what is
\* dispatched, is a GetStateFast or the continuation of one; and an arrival
\* is put ahead of it only if it is a GetStateFast that arrives while the
\* message dispatched last was not a GetStateFast or while a continuation is
\* queued ahead of the stalled message.
C35_OnlyGetStateFastAndContinuationsAhead ==
    [][HeldUp =>
        /\ StalledPosition # 0
        /\ PositionOf(deferred_messages_', StalledMessage.id) # 0
        /\ StaysBehind
        /\ \A i \in 1..(StalledPosition - 1) :
              deferred_messages_[i].type \in {GetStateFast, "Rescheduled"}
        /\ DispatchStep =>
              /\ StalledPosition > 1
              /\ Head(deferred_messages_).type \in {GetStateFast, "Rescheduled"}
        /\ (ChannelReceives /\ PlacedAhead) =>
              /\ Head(mainTasks)[2].type = GetStateFast
              /\ \/ ~processed_get_state_fast_
                 \/ /\ FirstNonGetStateFast(deferred_messages_) # 0
                    /\ FirstNonGetStateFast(deferred_messages_) < StalledPosition
                    /\ deferred_messages_[FirstNonGetStateFast(deferred_messages_)].type
                           = "Rescheduled"]_vars

\* A GetStateFast for a destination that is ready was dispatched ahead of a
\* message that is held up, with another message queued behind that one.
C35_Witness ==
    /\ HeldUp
    /\ last_wake.outcome = "dispatched"
    /\ last_wake.type = GetStateFast
    /\ last_wake.route # StalledMessage.route
    /\ StalledPosition = 1
    /\ Len(deferred_messages_) >= 2

\* The received message n is at the head of the queue.
AtHead(n) ==
    /\ deferred_messages_ # <<>>
    /\ Head(deferred_messages_).id = n

Dispatched(n) == \E k \in 1..Len(dispatch_log) : dispatch_log[k].id = n

WakeFindsFlagReset == SF_vars(DispatchStep /\ HandleMessage(Clean))

HeadIsLost ==
    /\ ~IsSync(Head(deferred_messages_))
    /\ HeadFailsToRoute

RetireArrives ==
    \E m \in TransportMessages :
        m.type = "RetireSyncPoint" /\ FilterOnMessageReceived(m)

\* The RetireSyncPoint messages in a queue, and in the tasks that hand a
\* message of the transport to the channel.
RetireQueued(q) == {i \in 1..Len(q) : q[i].type = "RetireSyncPoint"}
RetireForwarded(tasks) ==
    {i \in 1..Len(tasks) : /\ tasks[i][1] = "Deliver"
                           /\ tasks[i][2].type = "RetireSyncPoint"}

Registered == {r \in Routes : stubs_[r].exists}

\* C39: once SetPreemptByFlag handed the channel a flag, every registered
\* command buffer has the flag installed: those that existed at the call, and
\* every view or offscreen command buffer created since, whatever was created
\* and destroyed in between.  The step that creates a command buffer for such
\* a channel creates it with the flag.
C39_EveryStubHasTheFlag ==
    [][preempted_flag_' =>
          /\ \A r \in Routes : stubs_'[r].exists => stubs_'[r].flag
          /\ (preempted_flag_ /\ last_id' # last_id) =>
                /\ stubs_'[last_id'].exists
                /\ stubs_'[last_id'].flag]_vars

\* The channel was handed the flag with a view command buffer registered, an
\* offscreen command buffer was created afterwards by the dispatch loop, and
\* both have the flag.
C39_Witness ==
    /\ preempted_flag_
    /\ Registered = {1, 2}
    /\ stubs_[1].flag /\ stubs_[2].flag
    /\ last_wake.outcome = "dispatched"
    /\ last_wake.type = "CreateOffscreenCommandBuffer"
    /\ last_wake.result
    /\ Len(dispatch_log) = 1
    /\ error_replies = 0

=============================================================================
